---------------------------- MODULE Spec2Model ----------------------------
(* Swipe-to-match flow of SWAPIT: the swap_requests and notifications    *)
(* tables as the pages Discover (handleSwipe) and Dashboard              *)
(* (handleAcceptRequest, handleRejectRequest, fetchMatches,              *)
(* fetchPendingRequests) read and write them.  Every browser session is  *)
(* a process; every awaited store call is one atomic step, and the steps *)
(* of different sessions interleave freely.                              *)
EXTENDS Integers, FiniteSets, Sequences, Bags, TLC

(***************************************************************************)
(* Bounds of the model                                                     *)
(***************************************************************************)
\* Most right/up swipes, accepts and rejects begun in one behaviour.
MaxOps == 3

(***************************************************************************)
(* Users and sessions                                                      *)
(***************************************************************************)
Users == {"A", "B"}

\* useAuth(): the signed-in user of every browser session.  A is signed in
\* twice (two tabs or two devices).
SessionUsers == <<"A", "B", "A">>
Sessions == 1..Len(SessionUsers)
NoUser == "nobody"
NoRequest == [id |-> 0]

UserOf(s) == SessionUsers[s]

\* Variant of ProfilesOf without the .neq('id', user.id) filter.
ProfilesOfUnfiltered(u) == IF u = "A" THEN <<"A", "B">> ELSE <<"B", "A">>

\* Discover.tsx fetchProfiles: the other users (.neq('id', user.id)), in the
\* store's order.
ProfilesOf(u) == IF u = "A" THEN <<"B">> ELSE <<"A">>

Directions == {"left", "right", "up", "down"}

VARIABLES
  swap_requests,    \* table swap_requests: set of rows
  notifications,    \* table notifications: bag of rows
  nextId,           \* next generated swap_requests.id
  page,             \* page[s]: the page session s shows
  pc,               \* pc[s]: position of the handler running in session s
  currentIndex,     \* Discover state currentIndex
  direction,        \* handleSwipe argument
  insertError,      \* handleSwipe local: the error code the insert returned
  mutualMatch,      \* handleSwipe local: the row the reverse lookup returned
  requestId,        \* handleAcceptRequest / handleRejectRequest argument
  pendingRequests,  \* Dashboard state pendingRequests
  matches,          \* Dashboard state matches
  started,          \* history: handler calls begun, <<op, user, other>>
  nOps,             \* history: number of handler calls begun
  finished          \* history: handler calls returned, <<op, user, other, outcome>>

vars == <<swap_requests, notifications, nextId, page, pc, currentIndex,
          direction, insertError, mutualMatch, requestId, pendingRequests, matches,
          started, nOps, finished>>

store == <<swap_requests, notifications, nextId>>
local == <<page, currentIndex, direction, insertError, mutualMatch, requestId,
           pendingRequests, matches>>
hist == <<started, nOps, finished>>


(***************************************************************************)
(* The store: what the supabase calls of the pages do to the tables        *)
(***************************************************************************)
SwipeTypes == {"normal", "super"}
Statuses == {"pending", "matched", "rejected"}

\* Unique key of swap_requests on (from_user_id, to_user_id): the condition
\* under which an insert is refused with error 23505.
DuplicateKey(reqs, from, to) ==
  \E r \in reqs : r.from_user_id = from /\ r.to_user_id = to

\* Variant of InsertRequest: an upsert on the unique key, which overwrites
\* the stored row's swipe_type and status.
InsertRequestAsUpsert(reqs, id, from, to, kind) ==
  {r \in reqs : ~(r.from_user_id = from /\ r.to_user_id = to)}
    \cup {[id |-> IF DuplicateKey(reqs, from, to)
                    THEN (CHOOSE r \in reqs :
                            r.from_user_id = from /\ r.to_user_id = to).id
                    ELSE id,
            from_user_id |-> from, to_user_id |-> to,
            swipe_type |-> kind, status |-> "pending"]}

\* .from('swap_requests').insert({from_user_id, to_user_id, swipe_type,
\*  status: 'pending'}); error 23505 is ignored by the caller.
InsertRequest(reqs, id, from, to, kind) ==
  IF DuplicateKey(reqs, from, to)
    THEN reqs
    ELSE reqs \cup {[id |-> id, from_user_id |-> from, to_user_id |-> to,
                     swipe_type |-> kind, status |-> "pending"]}

\* The error code the insert returns.
InsertErrorCode(reqs, from, to) ==
  IF DuplicateKey(reqs, from, to) THEN "23505" ELSE "none"

\* The id sequence moves on only when a row was stored.
IdAfterInsert(reqs, id, from, to) ==
  IF DuplicateKey(reqs, from, to) THEN id ELSE id + 1

\* Variant of SelectMutualMatch with the two user filters exchanged: it
\* selects the swiping user's own record.
SelectMutualMatchOwnRecord(reqs, me, other) ==
  LET rows == {r \in reqs : /\ r.from_user_id = me
                            /\ r.to_user_id = other
                            /\ r.status = "pending"}
  IN IF Cardinality(rows) = 1 THEN CHOOSE r \in rows : TRUE ELSE NoRequest

\* Variant of SelectMutualMatch that finds super requests only.
SelectMutualMatchSuperOnly(reqs, me, other) ==
  LET rows == {r \in reqs : /\ r.from_user_id = other
                            /\ r.to_user_id = me
                            /\ r.status = "pending"
                            /\ r.swipe_type = "super"}
  IN IF Cardinality(rows) = 1 THEN CHOOSE r \in rows : TRUE ELSE NoRequest

\* Variant of SelectMutualMatch without the filter on status.
SelectMutualMatchAnyStatus(reqs, me, other) ==
  LET rows == {r \in reqs : r.from_user_id = other /\ r.to_user_id = me}
  IN IF Cardinality(rows) = 1 THEN CHOOSE r \in rows : TRUE ELSE NoRequest

\* .select('*').eq('from_user_id', currentProfile.id).eq('to_user_id', user.id)
\*   .eq('status', 'pending').single(): the row when exactly one row is
\* selected, null otherwise.
SelectMutualMatch(reqs, me, other) ==
  LET rows == {r \in reqs : /\ r.from_user_id = other
                            /\ r.to_user_id = me
                            /\ r.status = "pending"}
  IN IF Cardinality(rows) = 1 THEN CHOOSE r \in rows : TRUE ELSE NoRequest

\* Variant of UpdateStatus without the filter on id.
UpdateStatusEveryRow(reqs, ids, status) ==
  {[r EXCEPT !.status = status] : r \in reqs}

\* .update({status}).in('id', ids) and .update({status}).eq('id', id):
\* every row with one of the ids gets the status, whatever its status was.
UpdateStatus(reqs, ids, status) ==
  {IF r.id \in ids THEN [r EXCEPT !.status = status] ELSE r : r \in reqs}

\* handleSwipe's update: the ids it passes to .in('id', ...).
SwipeUpdateIds(mm) == {mm.id}

\* swipe_type: direction === 'up' ? 'super' : 'normal'
SwipeType(d) == IF d = "up" THEN "super" ELSE "normal"

\* handleSwipe's notification row.  request is not a column: it names the
\* row whose match the notification announces.
SwipeNotification(me, other, mm) ==
  [user_id |-> me, title |-> "New Match!", counterpart |-> other,
   request |-> mm.id]

\* handleAcceptRequest's notification row, sent to request.fromUser.id; its
\* message names nobody.
AcceptNotification(request) ==
  [user_id |-> request.fromUser, title |-> "Match Accepted!",
   counterpart |-> NoUser, request |-> request.id]

\* Variant of SelectPendingRequests without the filter on status.
SelectPendingRequestsAnyStatus(reqs, u) ==
  {[id |-> r.id, fromUser |-> r.from_user_id, swipeType |-> r.swipe_type] :
     r \in {q \in reqs : q.to_user_id = u}}

\* fetchPendingRequests: .eq('to_user_id', user.id).eq('status', 'pending'),
\* transformed to {id, fromUser, swipeType}.
SelectPendingRequests(reqs, u) ==
  {[id |-> r.id, fromUser |-> r.from_user_id, swipeType |-> r.swipe_type] :
     r \in {q \in reqs : q.to_user_id = u /\ q.status = "pending"}}

\* Variant of SelectMatches that selects only the records sent by U.
SelectMatchesSentOnly(reqs, u) ==
  {[id |-> r.id, user |-> r.from_user_id] :
     r \in {q \in reqs : q.status = "matched" /\ q.from_user_id = u}}

\* fetchMatches: .eq('status', 'matched').or(from_user_id.eq.U, to_user_id.eq.U);
\* every entry shows match.users, the joined from_user, on both branches of
\* the otherUser conditional.
SelectMatches(reqs, u) ==
  {[id |-> r.id, user |-> r.from_user_id] :
     r \in {q \in reqs : /\ q.status = "matched"
                         /\ (q.from_user_id = u \/ q.to_user_id = u)}}

(***************************************************************************)
(* Initial state: empty tables, every session on Discover with a fresh     *)
(* stack of profiles.                                                      *)
(***************************************************************************)
Init ==
  /\ swap_requests = {}
  /\ notifications = EmptyBag
  /\ nextId = 1
  /\ page = [s \in Sessions |-> "discover"]
  /\ pc = [s \in Sessions |-> "idle"]
  /\ currentIndex = [s \in Sessions |-> 0]
  /\ direction = [s \in Sessions |-> "left"]
  /\ insertError = [s \in Sessions |-> "none"]
  /\ mutualMatch = [s \in Sessions |-> NoRequest]
  /\ requestId = [s \in Sessions |-> 0]
  /\ pendingRequests = [s \in Sessions |-> {}]
  /\ matches = [s \in Sessions |-> {}]
  /\ started = {}
  /\ nOps = 0
  /\ finished = {}

\* currentProfile = profiles[currentIndex]
CurrentProfile(s) == ProfilesOf(UserOf(s))[currentIndex[s] + 1]

OpsLeft == nOps < MaxOps

Begin(op, u, v) ==
  /\ started' = started \cup {<<op, u, v>>}
  /\ nOps' = nOps + 1
Return(op, u, v, outcome) == finished' = finished \cup {<<op, u, v, outcome>>}

(***************************************************************************)
(* Discover: handleSwipe                                                   *)
(***************************************************************************)
\* Lines 103-117: the guard, setIsAnimating(true) and the exit animation.
SwipeStart(s, d) ==
  /\ page[s] = "discover"
  /\ pc[s] = "idle"
  /\ currentIndex[s] < Len(ProfilesOf(UserOf(s)))
  /\ pc' = [pc EXCEPT ![s] = "animating"]
  /\ direction' = [direction EXCEPT ![s] = d]
  /\ IF d \in {"right", "up"}
       THEN OpsLeft /\ Begin("swipe", UserOf(s), CurrentProfile(s))
       ELSE UNCHANGED <<started, nOps>>
  /\ UNCHANGED <<store, page, currentIndex, insertError, mutualMatch,
                 requestId, pendingRequests, matches, finished>>

\* Lines 169-189: the toast, setCurrentIndex(prev + 1), setIsAnimating(false).
\* The handler's arguments and locals end with it.  outcome tells whether
\* triggerMatch() was called.
SwipeEnd(s, outcome) ==
  /\ pc' = [pc EXCEPT ![s] = "idle"]
  /\ currentIndex' = [currentIndex EXCEPT ![s] = @ + 1]
  /\ direction' = [direction EXCEPT ![s] = "left"]
  /\ insertError' = [insertError EXCEPT ![s] = "none"]
  /\ mutualMatch' = [mutualMatch EXCEPT ![s] = NoRequest]
  /\ IF direction[s] \in {"right", "up"}
       THEN Return("swipe", UserOf(s), CurrentProfile(s), outcome)
       ELSE UNCHANGED finished
  /\ UNCHANGED <<started, nOps>>

\* Variant of SwipePass that stores a request for the passed profile.
SwipePassStores(s) ==
  /\ pc[s] = "animating"
  /\ direction[s] \notin {"right", "up"}
  /\ swap_requests' = InsertRequest(swap_requests, nextId, UserOf(s),
                                    CurrentProfile(s), "normal")
  /\ nextId' = IdAfterInsert(swap_requests, nextId, UserOf(s), CurrentProfile(s))
  /\ SwipeEnd(s, "passed")
  /\ UNCHANGED <<notifications, page, requestId, pendingRequests, matches>>

\* direction left or down: nothing between the animation and the end.
SwipePass(s) ==
  /\ pc[s] = "animating"
  /\ direction[s] \notin {"right", "up"}
  /\ SwipeEnd(s, "passed")
  /\ UNCHANGED <<store, page, requestId, pendingRequests, matches>>

\* Lines 122-134: the insert; a duplicate key error is ignored.
SwipeInsert(s) ==
  /\ pc[s] = "animating"
  /\ direction[s] \in {"right", "up"}
  /\ swap_requests' = InsertRequest(swap_requests, nextId, UserOf(s),
                                    CurrentProfile(s), SwipeType(direction[s]))
  /\ nextId' = IdAfterInsert(swap_requests, nextId, UserOf(s), CurrentProfile(s))
  /\ insertError' = [insertError EXCEPT ![s] =
        InsertErrorCode(swap_requests, UserOf(s), CurrentProfile(s))]
  /\ pc' = [pc EXCEPT ![s] = "lookup"]
  /\ UNCHANGED <<notifications, page, currentIndex, direction, mutualMatch,
                 requestId, pendingRequests, matches, hist>>

\* Lines 136-145: the reverse lookup; with no row the handler goes on to
\* its end.
SwipeLookup(s) ==
  /\ pc[s] = "lookup"
  /\ LET mm == SelectMutualMatch(swap_requests, UserOf(s), CurrentProfile(s))
     IN IF mm # NoRequest
          THEN /\ mutualMatch' = [mutualMatch EXCEPT ![s] = mm]
               /\ pc' = [pc EXCEPT ![s] = "update"]
               /\ UNCHANGED <<currentIndex, direction, insertError, hist>>
          ELSE SwipeEnd(s, "pending")
  /\ UNCHANGED <<store, page, requestId, pendingRequests, matches>>

\* Lines 146-150: update({status: 'matched'}).in('id', [mutualMatch.id]).
SwipeUpdate(s) ==
  /\ pc[s] = "update"
  /\ swap_requests' = UpdateStatus(swap_requests,
                                   SwipeUpdateIds(mutualMatch[s]), "matched")
  /\ pc' = [pc EXCEPT ![s] = "notify"]
  /\ UNCHANGED <<notifications, nextId, local, hist>>

\* Lines 152-162 and 169-189: the notification for the swiping user,
\* triggerMatch(), then the end of the handler.
SwipeNotify(s) ==
  /\ pc[s] = "notify"
  /\ notifications' = notifications (+)
       SetToBag({SwipeNotification(UserOf(s), CurrentProfile(s), mutualMatch[s])})
  /\ SwipeEnd(s, "matched")
  /\ UNCHANGED <<swap_requests, nextId, page, requestId, pendingRequests,
                 matches>>

\* Line 103: if (isAnimating || currentIndex >= profiles.length) return;
\* a call made while an execution of the handler is running, or with the
\* stack used up, returns at once.
SwipeIgnored(s) ==
  /\ page[s] = "discover"
  /\ \/ pc[s] \in {"animating", "lookup", "update", "notify"}
     \/ currentIndex[s] >= Len(ProfilesOf(UserOf(s)))
  /\ UNCHANGED vars

\* Lines 214-218 and 230-247: resetStack, offered when the stack is used up.
ResetStack(s) ==
  /\ page[s] = "discover"
  /\ pc[s] = "idle"
  /\ currentIndex[s] >= Len(ProfilesOf(UserOf(s)))
  /\ currentIndex' = [currentIndex EXCEPT ![s] = 0]
  /\ UNCHANGED <<store, page, pc, direction, insertError, mutualMatch, requestId,
                 pendingRequests, matches, hist>>

(***************************************************************************)
(* Dashboard: fetchMatches, fetchPendingRequests, handleAcceptRequest,     *)
(* handleRejectRequest                                                     *)
(***************************************************************************)
\* Lines 38-43: the Dashboard is mounted with empty lists and starts both
\* fetches.
OpenDashboard(s) ==
  /\ page[s] = "discover"
  /\ pc[s] = "idle"
  /\ page' = [page EXCEPT ![s] = "dashboard"]
  /\ pc' = [pc EXCEPT ![s] = "fetch_matches"]
  /\ currentIndex' = [currentIndex EXCEPT ![s] = 0]
  /\ UNCHANGED <<store, direction, insertError, mutualMatch, requestId, pendingRequests,
                 matches, hist>>

\* Discover is mounted with currentIndex 0; the Dashboard's lists are gone.
OpenDiscover(s) ==
  /\ page[s] = "dashboard"
  /\ pc[s] = "idle"
  /\ page' = [page EXCEPT ![s] = "discover"]
  /\ pendingRequests' = [pendingRequests EXCEPT ![s] = {}]
  /\ matches' = [matches EXCEPT ![s] = {}]
  /\ UNCHANGED <<store, pc, currentIndex, direction, insertError, mutualMatch, requestId,
                 hist>>

\* Lines 45-91: fetchMatches.
FetchMatches(s) ==
  /\ pc[s] = "fetch_matches"
  /\ matches' = [matches EXCEPT ![s] = SelectMatches(swap_requests, UserOf(s))]
  /\ pc' = [pc EXCEPT ![s] = "fetch_pending"]
  /\ UNCHANGED <<store, page, currentIndex, direction, insertError, mutualMatch, requestId,
                 pendingRequests, hist>>

\* Lines 93-134: fetchPendingRequests.
FetchPendingRequests(s) ==
  /\ pc[s] = "fetch_pending"
  /\ pendingRequests' = [pendingRequests EXCEPT ![s] =
                           SelectPendingRequests(swap_requests, UserOf(s))]
  /\ pc' = [pc EXCEPT ![s] = "idle"]
  /\ UNCHANGED <<store, page, currentIndex, direction, insertError, mutualMatch, requestId,
                 matches, hist>>

\* Lines 136-144: the Accept button of a listed request;
\* update({status: 'matched'}).eq('id', requestId).
AcceptRequest(s, request) ==
  /\ OpsLeft
  /\ page[s] = "dashboard"
  /\ pc[s] = "idle"
  /\ request \in pendingRequests[s]
  /\ swap_requests' = UpdateStatus(swap_requests, {request.id}, "matched")
  /\ requestId' = [requestId EXCEPT ![s] = request.id]
  /\ pc' = [pc EXCEPT ![s] = "accept_notify"]
  /\ Begin("accept", UserOf(s), request.fromUser)
  /\ UNCHANGED <<notifications, nextId, page, currentIndex, direction, insertError,
                 mutualMatch, pendingRequests, matches, finished>>

\* Lines 146-161: the notification for request.fromUser.id, then both
\* fetches are started.
AcceptNotify(s) ==
  /\ pc[s] = "accept_notify"
  /\ LET found == {r \in pendingRequests[s] : r.id = requestId[s]}
     IN /\ notifications' =
             IF found = {} THEN notifications
             ELSE notifications (+)
                    SetToBag({AcceptNotification(CHOOSE r \in found : TRUE)})
        /\ finished' = finished \cup
             {<<"accept", UserOf(s), r.fromUser, "accepted">> : r \in found}
  /\ pc' = [pc EXCEPT ![s] = "fetch_matches"]
  /\ requestId' = [requestId EXCEPT ![s] = 0]
  /\ UNCHANGED <<swap_requests, nextId, page, currentIndex, direction, insertError,
                 mutualMatch, pendingRequests, matches, started, nOps>>

\* Lines 168-178: the Reject button of a listed request;
\* update({status: 'rejected'}).eq('id', requestId), then the pending list
\* is fetched again.
RejectRequest(s, request) ==
  /\ OpsLeft
  /\ page[s] = "dashboard"
  /\ pc[s] = "idle"
  /\ request \in pendingRequests[s]
  /\ swap_requests' = UpdateStatus(swap_requests, {request.id}, "rejected")
  /\ pc' = [pc EXCEPT ![s] = "fetch_pending"]
  /\ Begin("reject", UserOf(s), request.fromUser)
  /\ Return("reject", UserOf(s), request.fromUser, "rejected")
  /\ UNCHANGED <<notifications, nextId, page, currentIndex, direction, insertError,
                 mutualMatch, requestId, pendingRequests, matches>>

(***************************************************************************)
(* The system                                                              *)
(***************************************************************************)
Next ==
  \/ \E s \in Sessions, d \in Directions : SwipeStart(s, d)
  \/ \E s \in Sessions : SwipePass(s)
  \/ \E s \in Sessions : SwipeInsert(s)
  \/ \E s \in Sessions : SwipeLookup(s)
  \/ \E s \in Sessions : SwipeUpdate(s)
  \/ \E s \in Sessions : SwipeNotify(s)
  \/ \E s \in Sessions : SwipeIgnored(s)
  \/ \E s \in Sessions : ResetStack(s)
  \/ \E s \in Sessions : OpenDashboard(s)
  \/ \E s \in Sessions : OpenDiscover(s)
  \/ \E s \in Sessions : FetchMatches(s)
  \/ \E s \in Sessions : FetchPendingRequests(s)
  \/ \E s \in Sessions : \E r \in pendingRequests[s] : AcceptRequest(s, r)
  \/ \E s \in Sessions : AcceptNotify(s)
  \/ \E s \in Sessions : \E r \in pendingRequests[s] : RejectRequest(s, r)

Spec == Init /\ [][Next]_vars

(***************************************************************************)
(* Store failures.  A supabase call resolves to {data, error}; the steps   *)
(* below are the handlers' continuations when error is set and the table   *)
(* was not written.                                                        *)
(***************************************************************************)
\* Variant of SwipeInsertFails that does not throw: the handler goes on to
\* the reverse lookup.
SwipeInsertFailsGoesOn(s) ==
  /\ pc[s] = "animating"
  /\ direction[s] \in {"right", "up"}
  /\ pc' = [pc EXCEPT ![s] = "lookup"]
  /\ insertError' = [insertError EXCEPT ![s] = "other"]
  /\ UNCHANGED <<store, page, currentIndex, direction, mutualMatch, requestId,
                 pendingRequests, matches, hist>>

\* Variant of SwipeInsertFails that ends the handler without consuming the
\* profile.
SwipeInsertFailsKeepsProfile(s) ==
  /\ pc[s] = "animating"
  /\ direction[s] \in {"right", "up"}
  /\ pc' = [pc EXCEPT ![s] = "idle"]
  /\ direction' = [direction EXCEPT ![s] = "left"]
  /\ Return("swipe", UserOf(s), CurrentProfile(s), "failed")
  /\ UNCHANGED <<store, page, currentIndex, insertError, mutualMatch, requestId,
                 pendingRequests, matches, started, nOps>>

\* Lines 123-134 and 164-189: the insert returns an error other than 23505;
\* it is thrown, the catch logs it, and the handler goes on to the toast of
\* its direction, setCurrentIndex(prev + 1) and setIsAnimating(false), as
\* after a swipe that found no match.
SwipeInsertFails(s) ==
  /\ pc[s] = "animating"
  /\ direction[s] \in {"right", "up"}
  /\ SwipeEnd(s, "pending")
  /\ UNCHANGED <<store, page, requestId, pendingRequests, matches>>

\* Variant of SwipeNotifyFails that undoes the status update.
SwipeNotifyFailsRollback(s) ==
  /\ pc[s] = "notify"
  /\ swap_requests' = UpdateStatus(swap_requests,
                                   SwipeUpdateIds(mutualMatch[s]), "pending")
  /\ SwipeEnd(s, "pending")
  /\ UNCHANGED <<notifications, nextId, page, requestId, pendingRequests,
                 matches>>

\* Lines 152-162 and 169-189: the notification insert returns an error; the
\* result is not looked at, triggerMatch() is called and the handler ends.
SwipeNotifyFails(s) ==
  /\ pc[s] = "notify"
  /\ SwipeEnd(s, "matched")
  /\ UNCHANGED <<store, page, requestId, pendingRequests, matches>>

\* Dashboard lines 146-161: the notification insert returns an error; the
\* result is not looked at, the success toast is shown and both fetches
\* are started.
AcceptNotifyFails(s) ==
  /\ pc[s] = "accept_notify"
  /\ finished' = finished \cup
       {<<"accept", UserOf(s), r.fromUser, "accepted">> :
          r \in {q \in pendingRequests[s] : q.id = requestId[s]}}
  /\ pc' = [pc EXCEPT ![s] = "fetch_matches"]
  /\ requestId' = [requestId EXCEPT ![s] = 0]
  /\ UNCHANGED <<store, page, currentIndex, direction, insertError,
                 mutualMatch, pendingRequests, matches, started, nOps>>

\* Lines 137-145: the reverse lookup returns an error; data is null, the
\* error is not looked at, and the handler goes on to its end as after a
\* lookup that found no row.
SwipeLookupFails(s) ==
  /\ pc[s] = "lookup"
  /\ SwipeEnd(s, "pending")
  /\ UNCHANGED <<store, page, requestId, pendingRequests, matches>>

\* Variant of SwipeUpdateFails that goes back to the reverse lookup.
SwipeUpdateFailsRetry(s) ==
  /\ pc[s] = "update"
  /\ pc' = [pc EXCEPT ![s] = "lookup"]
  /\ UNCHANGED <<store, local, hist>>

\* Lines 146-150: the status update returns an error; its result is not
\* looked at and the handler goes on to the notification.
SwipeUpdateFails(s) ==
  /\ pc[s] = "update"
  /\ pc' = [pc EXCEPT ![s] = "notify"]
  /\ UNCHANGED <<store, local, hist>>

\* Dashboard lines 136-144 and 162-165: the status update of an accept
\* returns an error; it is thrown, the catch shows the error toast, and
\* neither the notification nor the fetches are reached: no table and no
\* component state changes.
AcceptUpdateFails(s, request) ==
  /\ page[s] = "dashboard"
  /\ pc[s] = "idle"
  /\ request \in pendingRequests[s]
  /\ UNCHANGED vars

\* Dashboard lines 168-182: the status update of a reject returns an error;
\* it is thrown, the catch shows the error toast, the list is not fetched:
\* no table and no component state changes.
RejectUpdateFails(s, request) ==
  /\ page[s] = "dashboard"
  /\ pc[s] = "idle"
  /\ request \in pendingRequests[s]
  /\ UNCHANGED vars

\* The sessions of the system with store failures: one for each user.
FaultSessions == 1..Cardinality(Users)

NextF ==
  \/ \E s \in FaultSessions, d \in Directions : SwipeStart(s, d)
  \/ \E s \in FaultSessions : SwipePass(s)
  \/ \E s \in FaultSessions : SwipeInsert(s)
  \/ \E s \in FaultSessions : SwipeLookup(s)
  \/ \E s \in FaultSessions : SwipeUpdate(s)
  \/ \E s \in FaultSessions : SwipeNotify(s)
  \/ \E s \in FaultSessions : SwipeIgnored(s)
  \/ \E s \in FaultSessions : ResetStack(s)
  \/ \E s \in FaultSessions : OpenDashboard(s)
  \/ \E s \in FaultSessions : OpenDiscover(s)
  \/ \E s \in FaultSessions : FetchMatches(s)
  \/ \E s \in FaultSessions : FetchPendingRequests(s)
  \/ \E s \in FaultSessions : \E r \in pendingRequests[s] : AcceptRequest(s, r)
  \/ \E s \in FaultSessions : AcceptNotify(s)
  \/ \E s \in FaultSessions : \E r \in pendingRequests[s] : RejectRequest(s, r)
  \/ \E s \in FaultSessions : SwipeInsertFails(s)
  \/ \E s \in FaultSessions : SwipeNotifyFails(s)
  \/ \E s \in FaultSessions : AcceptNotifyFails(s)
  \/ \E s \in FaultSessions : SwipeLookupFails(s)
  \/ \E s \in FaultSessions : SwipeUpdateFails(s)
  \/ \E s \in FaultSessions : \E r \in pendingRequests[s] : AcceptUpdateFails(s, r)
  \/ \E s \in FaultSessions : \E r \in pendingRequests[s] : RejectUpdateFails(s, r)

\* The system with store failures, one session for each user.
SpecF == Init /\ [][NextF]_vars

\* A step of a handler of session s that is past its first await: every
\* awaited call resolves, with data or with an error.
HandlerStep(s) ==
  \/ SwipePass(s)
  \/ SwipeInsert(s) \/ SwipeInsertFails(s)
  \/ SwipeLookup(s) \/ SwipeLookupFails(s)
  \/ SwipeUpdate(s) \/ SwipeUpdateFails(s)
  \/ SwipeNotify(s) \/ SwipeNotifyFails(s)
  \/ AcceptNotify(s) \/ AcceptNotifyFails(s)
  \/ FetchMatches(s)
  \/ FetchPendingRequests(s)

\* The system with store failures where every started handler runs on.
\* What the user does next (swipes, buttons, navigation) is not fair.
SpecFW == SpecF /\ \A s \in FaultSessions : WF_vars(HandlerStep(s))

\* SpecFW where the notifications table does not refuse an insert for ever.
SpecFL ==
  /\ SpecFW
  /\ \A s \in FaultSessions : SF_vars(SwipeNotify(s)) /\ SF_vars(AcceptNotify(s))

(***************************************************************************)
(* Whole handler runs, with no other session in between                    *)
(***************************************************************************)
\* Discover.tsx lines 120-163 run from db = [reqs, notes, id]: insert,
\* reverse lookup, and on a hit the update and the notification.
SwipeRun(db, me, other, d) ==
  LET reqs1 == InsertRequest(db.reqs, db.id, me, other, SwipeType(d))
      id1 == IdAfterInsert(db.reqs, db.id, me, other)
      mm == SelectMutualMatch(reqs1, me, other)
  IN IF mm = NoRequest
       THEN [reqs |-> reqs1, notes |-> db.notes, id |-> id1]
       ELSE [reqs |-> UpdateStatus(reqs1, SwipeUpdateIds(mm), "matched"),
             notes |-> db.notes (+) SetToBag({SwipeNotification(me, other, mm)}),
             id |-> id1]

\* Dashboard.tsx lines 136-157 run from db for a listed request.
AcceptRun(db, request) ==
  [reqs |-> UpdateStatus(db.reqs, {request.id}, "matched"),
   notes |-> db.notes (+) SetToBag({AcceptNotification(request)}),
   id |-> db.id]

Db == [reqs |-> swap_requests, notes |-> notifications, id |-> nextId]
EmptyDb == [reqs |-> {}, notes |-> EmptyBag, id |-> 1]

(***************************************************************************)
(* Vocabulary of the properties                                            *)
(***************************************************************************)
Pairs == {p \in Users \X Users : p[1] # p[2]}

RowsOf(reqs, a, b) == {r \in reqs : r.from_user_id = a /\ r.to_user_id = b}

\* The status of the record a -> b, "none" when there is no such record.
StatusOf(reqs, a, b) ==
  IF RowsOf(reqs, a, b) = {} THEN "none"
  ELSE (CHOOSE r \in RowsOf(reqs, a, b) : TRUE).status

RECURSIVE SumCopies(_, _)
SumCopies(S, bag) ==
  IF S = {} THEN 0
  ELSE LET x == CHOOSE y \in S : TRUE
       IN CopiesIn(x, bag) + SumCopies(S \ {x}, bag)

\* Number of notification rows whose recipient is u.
NotifiedCount(notes, u) ==
  SumCopies({n \in BagToSet(notes) : n.user_id = u}, notes)

\* What a final state is compared by: the status of every directed record
\* and how many notifications every user got.
Outcome(db) ==
  [status |-> [p \in Pairs |-> StatusOf(db.reqs, p[1], p[2])],
   notified |-> [u \in Users |-> NotifiedCount(db.notes, u)]]

SwipeDone(a, b) == \E o \in {"pending", "matched"} : <<"swipe", a, b, o>> \in finished

OnlySwipes == \A op \in started : op[1] = "swipe"

\* No swipe and no accept is between two of its store calls.
NoneInProgress ==
  \A s \in Sessions :
    pc[s] \notin {"animating", "lookup", "update", "notify", "accept_notify"}

(***************************************************************************)
(* C1-C4: the mutual match                                                 *)
(***************************************************************************)
\* C1: once a right/up swipe by A on B and one by B on A have both
\* completed (only swipes having run, any number of each, in any
\* interleaving), both records A->B and B->A have status matched.
C1_BothMatchedAfterBothSwipes ==
  \A p \in Pairs :
    (OnlySwipes /\ SwipeDone(p[1], p[2]) /\ SwipeDone(p[2], p[1]))
      => /\ StatusOf(swap_requests, p[1], p[2]) = "matched"
         /\ StatusOf(swap_requests, p[2], p[1]) = "matched"

\* C2: once all swipes A->B and B->A (at least one of each) have completed,
\* exactly two match notifications exist for the pair: one whose recipient
\* is A and one whose recipient is B.
C2_ExactlyOneNotificationEach ==
  \A p \in Pairs :
    (OnlySwipes /\ NoneInProgress /\ SwipeDone(p[1], p[2]) /\ SwipeDone(p[2], p[1]))
      => /\ NotifiedCount(notifications, p[1]) = 1
         /\ NotifiedCount(notifications, p[2]) = 1

\* C3: after one swipe A->B and one swipe B->A have both completed, the
\* final state (statuses, notification recipients) is the same for every
\* interleaving: it is the one the sequential order A-then-B gives and the
\* one the sequential order B-then-A gives.
C3_SameOutcomeForEveryInterleaving ==
  \A p \in Pairs :
    (/\ started = {<<"swipe", p[1], p[2]>>, <<"swipe", p[2], p[1]>>}
     /\ nOps = 2
     /\ SwipeDone(p[1], p[2]) /\ SwipeDone(p[2], p[1]))
      => /\ Outcome(Db) = Outcome(SwipeRun(SwipeRun(EmptyDb, p[1], p[2], "right"),
                                           p[2], p[1], "right"))
         /\ Outcome(Db) = Outcome(SwipeRun(SwipeRun(EmptyDb, p[2], p[1], "right"),
                                           p[1], p[2], "right"))

\* C4: when no swipe or accept is in progress, a record X->Y has status
\* matched only if the reverse record Y->X exists and has status matched.
C4_MatchedOnlyInPairs ==
  NoneInProgress =>
    \A r \in swap_requests :
      r.status = "matched"
        => StatusOf(swap_requests, r.to_user_id, r.from_user_id) = "matched"

(***************************************************************************)
(* C5-C10: uniqueness, terminal statuses, no false match, resubmission,    *)
(* accept versus swipe                                                     *)
(***************************************************************************)
\* Session s takes a step of a right/up handleSwipe.
SwipeStep(s) ==
  /\ pc[s] \in {"animating", "lookup", "update", "notify"}
  /\ direction[s] \in {"right", "up"}
  /\ pc'[s] # pc[s]

UniquePerOrderedPair ==
  \A r1, r2 \in swap_requests :
    (r1.from_user_id = r2.from_user_id /\ r1.to_user_id = r2.to_user_id)
      => r1 = r2

\* C5: there is at most one record per ordered pair (from_user, to_user),
\* and no step of a swipe by A on B made while a record A->B exists adds a
\* record or changes that record's id, kind or status.
C5_OneRecordPerOrderedPair ==
  /\ []UniquePerOrderedPair
  /\ [][\A s \in Sessions :
          SwipeStep(s) =>
            \A r \in RowsOf(swap_requests, UserOf(s), CurrentProfile(s)) :
              RowsOf(swap_requests', UserOf(s), CurrentProfile(s)) = {r}]_vars

\* C5 witness: a second swipe A->B is past its insert, which was refused as
\* a duplicate, while another session's swipe A->B is still running.
C5_Witness ==
  \E s, t \in Sessions :
    /\ s # t /\ UserOf(s) = UserOf(t)
    /\ pc[s] = "lookup" /\ insertError[s] = "23505"
    /\ pc[t] = "lookup" /\ insertError[t] = "none"
    /\ Cardinality(RowsOf(swap_requests, UserOf(s), CurrentProfile(s))) = 1

\* C6: a record whose status is matched keeps that status in every step.
C6_MatchedIsTerminal ==
  [][\A r \in swap_requests :
       r.status = "matched" => r \in swap_requests']_vars

\* C7: a record whose status is rejected keeps that status in every step.
C7_RejectedIsTerminal ==
  [][\A r \in swap_requests :
       r.status = "rejected" => r \in swap_requests']_vars

\* b has begun a swipe on a, or an accept or a reject of a's request.
ActedOn(b, a) ==
  \E op \in {"swipe", "accept", "reject"} : <<op, b, a>> \in started

\* C8: while B has never swiped on A nor accepted or rejected A's request,
\* the record A->B is pending, no notification announces a match of A and B,
\* and no match list (read now, or kept by a Dashboard) has an entry for it.
C8_NoFalseMatch ==
  \A p \in Pairs :
    ~ActedOn(p[2], p[1]) =>
      \A r \in RowsOf(swap_requests, p[1], p[2]) :
        /\ r.status = "pending"
        /\ \A n \in BagToSet(notifications) :
             n.request # r.id /\ ~(n.user_id \in {p[1], p[2]})
        /\ \A u \in {p[1], p[2]} :
             \A m \in SelectMatches(swap_requests, u) : m.id # r.id
        /\ \A s \in Sessions : \A m \in matches[s] : m.id # r.id

\* C8 witness: A has swiped on B MaxOps times, every call has returned, and
\* B has done nothing.
C8_Witness ==
  /\ started = {<<"swipe", "A", "B">>}
  /\ nOps = MaxOps
  /\ \A s \in Sessions : pc[s] = "idle"
  /\ StatusOf(swap_requests, "A", "B") = "pending"

\* C9: a swipe by A on B whose insert found the record A->B already there
\* changes no status and produces no notification in its later steps.
C9_ResubmissionDoesNothing ==
  [][\A s \in Sessions :
       (SwipeStep(s) /\ insertError[s] = "23505")
         => /\ swap_requests' = swap_requests
            /\ notifications' = notifications]_vars

\* C10: for a listed request B->A that is still pending, accepting it as A
\* and swiping right on B as A lead from the present store to the same
\* records, statuses and notification recipients.
C10_AcceptEqualsSwipe ==
  \A s \in Sessions :
    (page[s] = "dashboard" /\ pc[s] = "idle") =>
      \A request \in pendingRequests[s] :
        request \in SelectPendingRequests(swap_requests, UserOf(s))
          => Outcome(AcceptRun(Db, request))
               = Outcome(SwipeRun(Db, UserOf(s), request.fromUser, "right"))

(***************************************************************************)
(* C11-C17: rejection, dispatch, the read views, kind, self-targeting      *)
(***************************************************************************)
\* Session s rejects, in this step, a listed request that is pending.
RejectsPending(s, request) ==
  /\ page[s] = "dashboard" /\ pc[s] = "idle"
  /\ pc'[s] = "fetch_pending"
  /\ <<"reject", UserOf(s), request.fromUser>> \in started'
  /\ nOps' = nOps + 1
  /\ \E r \in swap_requests : r.id = request.id /\ r.status = "pending"

\* C11: when B rejects the pending request A->B, that record becomes
\* rejected, no other record is created or changed and no notification is
\* produced; and while A->B is rejected, a swipe by B on A before its
\* lookup has returned leaves A->B rejected, stores B->A as pending when
\* there was no such record, and its lookup ends the swipe with no match.
C11_RejectionIsDirectional ==
  /\ [][\A s \in Sessions : \A request \in pendingRequests[s] :
          RejectsPending(s, request) =>
            /\ notifications' = notifications
            /\ Cardinality(swap_requests') = Cardinality(swap_requests)
            /\ \A r \in swap_requests :
                 IF r.id = request.id
                   THEN [r EXCEPT !.status = "rejected"] \in swap_requests'
                   ELSE r \in swap_requests']_vars
  /\ [][\A s \in Sessions :
          (/\ SwipeStep(s)
           /\ pc[s] \in {"animating", "lookup"}
           /\ StatusOf(swap_requests, CurrentProfile(s), UserOf(s)) = "rejected")
            => /\ StatusOf(swap_requests', CurrentProfile(s), UserOf(s)) = "rejected"
               /\ notifications' = notifications
               /\ pc'[s] # "update"
               /\ (/\ pc[s] = "animating"
                   /\ StatusOf(swap_requests, UserOf(s), CurrentProfile(s)) = "none")
                    => StatusOf(swap_requests', UserOf(s), CurrentProfile(s))
                         = "pending"]_vars

\* C11 witness: B rejected A's request, then a swipe by B on A returned:
\* A->B is rejected and B->A is pending.
C11_Witness ==
  /\ <<"reject", "B", "A">> \in started
  /\ <<"swipe", "B", "A", "pending">> \in finished
  /\ StatusOf(swap_requests, "A", "B") = "rejected"
  /\ StatusOf(swap_requests, "B", "A") = "pending"
  /\ notifications = EmptyBag

\* The two users of the record that the handler of session s has committed
\* as matched and is about to notify about.
Participants(s) ==
  IF pc[s] = "notify"
    THEN {UserOf(s), CurrentProfile(s)}
    ELSE UNION {{r.from_user_id, r.to_user_id} :
                  r \in {q \in swap_requests : q.id = requestId[s]}}

\* C12: the notification step of every operation that committed a match (a
\* swipe that found the reverse record pending, an accept of a request)
\* produces two notifications, one for each of the two participants.
C12_TwoNotificationsPerCommit ==
  [][\A s \in Sessions :
       (pc[s] \in {"notify", "accept_notify"} /\ pc'[s] # pc[s])
         => \A u \in Participants(s) :
              NotifiedCount(notifications', u) = NotifiedCount(notifications, u) + 1]_vars

\* The scenario of C13 has run to completion: exactly the two swipes, A's
\* right swipe on B reported no match and B's up (super) swipe came later.
C13_Scenario ==
  /\ started = {<<"swipe", "A", "B">>, <<"swipe", "B", "A">>}
  /\ nOps = 2
  /\ NoneInProgress
  /\ <<"swipe", "A", "B", "pending">> \in finished
  /\ \E r \in swap_requests :
       r.from_user_id = "A" /\ r.to_user_id = "B" /\ r.swipe_type = "normal"
  /\ \E r \in swap_requests :
       r.from_user_id = "B" /\ r.to_user_id = "A" /\ r.swipe_type = "super"

\* C13: from an empty store, after A swipes right on B with no match
\* reported and B then swipes up on A to completion, B's swipe reports a
\* match and the match lists read by A and by B each hold exactly one
\* entry, for a record between A and B.
C13_RightThenSuperMatches ==
  C13_Scenario =>
    /\ <<"swipe", "B", "A", "matched">> \in finished
    /\ \A u \in {"A", "B"} :
         /\ Cardinality(SelectMatches(swap_requests, u)) = 1
         /\ \A e \in SelectMatches(swap_requests, u) :
              \E r \in swap_requests :
                /\ r.id = e.id
                /\ {r.from_user_id, r.to_user_id} = {"A", "B"}

\* C13 witness: the scenario has completed and A has read its match list.
C13_Witness ==
  /\ C13_Scenario
  /\ page[1] = "dashboard" /\ pc[1] = "idle"
  /\ Cardinality(matches[1]) = 1

\* The unordered pair of users of the record shown by a match-list entry.
PairOfEntry(reqs, e) ==
  UNION {{r.from_user_id, r.to_user_id} : r \in {q \in reqs : q.id = e.id}}

\* C14: the match list read for a user holds at most one entry for each
\* unordered pair of users.
C14_OneEntryPerUnorderedPair ==
  \A u \in Users :
    \A e1, e2 \in SelectMatches(swap_requests, u) :
      PairOfEntry(swap_requests, e1) = PairOfEntry(swap_requests, e2) => e1 = e2

\* The records with to_user = u and status pending, as {id, fromUser} pairs.
PendingFor(reqs, u) ==
  {[id |-> r.id, fromUser |-> r.from_user_id] :
     r \in {q \in reqs : q.to_user_id = u /\ q.status = "pending"}}

\* C15: the pending-request list read for a user is exactly the set of
\* records with to_user = that user and status pending in the store at the
\* time of the read; reading it, or the match list, changes no record and
\* produces no notification.
C15_PendingListIsExactAndPure ==
  [][\A s \in Sessions :
       /\ (pc[s] = "fetch_pending" /\ pc'[s] # pc[s])
            => /\ {[id |-> e.id, fromUser |-> e.fromUser] : e \in pendingRequests'[s]}
                    = PendingFor(swap_requests, UserOf(s))
               /\ Cardinality(pendingRequests'[s])
                    = Cardinality(PendingFor(swap_requests, UserOf(s)))
               /\ store' = store
       /\ (pc[s] = "fetch_matches" /\ pc'[s] # pc[s]) => store' = store]_vars

\* C15 witness: a session has read a pending list that holds a request.
C15_Witness ==
  \E s \in Sessions :
    /\ page[s] = "dashboard" /\ pc[s] = "idle"
    /\ pendingRequests[s] # {}
    /\ {[id |-> e.id, fromUser |-> e.fromUser] : e \in pendingRequests[s]}
         = PendingFor(swap_requests, UserOf(s))

\* A table of requests with the kind of every record erased.
EraseKind(reqs) == {[r EXCEPT !.swipe_type = "normal"] : r \in reqs}

\* C16: the kind of a swipe never affects matching.  Every store operation
\* of a swipe of either kind, of an accept and of a reject commutes with
\* erasing the kinds: run on the reachable store and run on the store with
\* its kinds erased, it gives the same insert error, the same record found
\* by the reverse lookup, the same statuses, the same notifications and the
\* same pending and match lists.  Two runs of one sequence of operations
\* that differ in kinds only therefore agree, step by step, on record
\* statuses and notification recipients.
C16_KindNeverAffectsMatching ==
  LET v == EraseKind(swap_requests)
  IN \A me \in Users : \A other \in Users \ {me} :
       /\ InsertErrorCode(swap_requests, me, other) = InsertErrorCode(v, me, other)
       /\ \A d \in {"right", "up"} :
            LET r1 == InsertRequest(swap_requests, nextId, me, other, SwipeType(d))
                r2 == InsertRequest(v, nextId, me, other, "normal")
                m1 == SelectMutualMatch(r1, me, other)
                m2 == SelectMutualMatch(r2, me, other)
            IN /\ EraseKind(r1) = r2
               /\ m1.id = m2.id
               /\ m1 # NoRequest =>
                    /\ EraseKind(UpdateStatus(r1, SwipeUpdateIds(m1), "matched"))
                         = UpdateStatus(r2, SwipeUpdateIds(m2), "matched")
                    /\ SwipeNotification(me, other, m1) = SwipeNotification(me, other, m2)
       /\ SelectMatches(swap_requests, me) = SelectMatches(v, me)
       /\ {e.id : e \in SelectPendingRequests(swap_requests, me)}
            = {e.id : e \in SelectPendingRequests(v, me)}
       /\ \A e1 \in SelectPendingRequests(swap_requests, me) :
            \A e2 \in SelectPendingRequests(v, me) :
              e1.id = e2.id =>
                /\ e1.fromUser = e2.fromUser
                /\ AcceptNotification(e1) = AcceptNotification(e2)
                /\ \A status \in {"matched", "rejected"} :
                     EraseKind(UpdateStatus(swap_requests, {e1.id}, status))
                       = UpdateStatus(v, {e2.id}, status)

\* C16 witness: a super swipe met a pending normal request and matched it.
C16_Witness ==
  /\ \E r \in swap_requests : r.swipe_type = "normal" /\ r.status = "matched"
  /\ \E r \in swap_requests : r.swipe_type = "super" /\ r.status = "pending"
  /\ \E a, b \in Users : <<"swipe", a, b, "matched">> \in finished

\* C17: no stored swap request has from_user equal to to_user.
C17_NoSelfRequest ==
  \A r \in swap_requests : r.from_user_id # r.to_user_id

\* C17 witness: a swipe has stored its record and the record is between two
\* different users.
C17_Witness ==
  \E s \in Sessions :
    /\ pc[s] = "lookup"
    /\ insertError[s] = "none"
    /\ \E r \in swap_requests :
         /\ r.from_user_id = UserOf(s)
         /\ r.to_user_id = CurrentProfile(s)
         /\ r.from_user_id # r.to_user_id

(***************************************************************************)
(* C18-C20: failures and retries                                           *)
(***************************************************************************)
\* The step of session s in which the insert of its right/up swipe fails
\* with an error other than a duplicate key: the handler leaves the insert
\* without going on to the reverse lookup.
InsertFailed(s) ==
  /\ pc[s] = "animating"
  /\ direction[s] \in {"right", "up"}
  /\ pc'[s] # "animating"
  /\ pc'[s] # "lookup"

\* C18: a swipe whose insert fails with an error other than a duplicate key
\* reports a failure: it does not end with the outcome of a successful
\* swipe and the profile is not consumed.
C18_InsertFailureIsReported ==
  [][\A s \in Sessions :
       InsertFailed(s) =>
         /\ currentIndex'[s] = currentIndex[s]
         /\ \A o \in {"pending", "matched"} :
              <<"swipe", UserOf(s), CurrentProfile(s), o>> \notin finished' \ finished]_vars

\* The step of session s in which the notification insert of its swipe or
\* accept fails: the handler moves on and no notification was stored.
DispatchFailed(s) ==
  /\ pc[s] \in {"notify", "accept_notify"}
  /\ pc'[s] # pc[s]
  /\ notifications' = notifications

\* C19: when the notification insert of a swipe or accept fails, no swap
\* request changes: the record set to matched stays as it was.
C19_DispatchFailureKeepsStatus ==
  [][\A s \in Sessions : DispatchFailed(s) => swap_requests' = swap_requests]_vars

\* C19 witness: a swipe and an accept both ended after their notification
\* inserts failed, and the records they set to matched are matched.
C19_Witness ==
  /\ notifications = EmptyBag
  /\ \E a, b \in Users :
       /\ <<"swipe", a, b, "matched">> \in finished
       /\ StatusOf(swap_requests, b, a) = "matched"
  /\ \E a, b \in Users :
       /\ <<"accept", a, b, "accepted">> \in finished
       /\ StatusOf(swap_requests, b, a) = "matched"

\* Discover.tsx lines 136-163 run without interruption from the place where
\* the handler of session s stands: the reverse lookup when it has not been
\* made, the status update when it has not been made, the notification.
SwipeContinue(s) ==
  LET me == UserOf(s)
      other == CurrentProfile(s)
      mm == IF pc[s] = "lookup"
              THEN SelectMutualMatch(swap_requests, me, other)
              ELSE mutualMatch[s]
      reqs1 == IF pc[s] \in {"lookup", "update"}
                 THEN UpdateStatus(swap_requests, SwipeUpdateIds(mm), "matched")
                 ELSE swap_requests
  IN IF mm = NoRequest
       THEN Db
       ELSE [reqs |-> reqs1,
             notes |-> notifications (+) SetToBag({SwipeNotification(me, other, mm)}),
             id |-> nextId]

\* C20: a swipe abandoned between two of its store operations and then
\* retried to completion leaves the record statuses and notifications that
\* the swipe leaves when it runs on without interruption.
C20_RetryEqualsUninterruptedRun ==
  \A s \in Sessions :
    pc[s] \in {"lookup", "update", "notify"} =>
      Outcome(SwipeRun(Db, UserOf(s), CurrentProfile(s), direction[s]))
        = Outcome(SwipeContinue(s))

(***************************************************************************)
(* C21-C30                                                                 *)
(***************************************************************************)
\* The ids that requests can have.
RequestIds == 1..MaxOps

\* The handler of session s has set request i to matched and has not yet
\* made its notification insert.
CommittedBy(s, i) ==
  /\ \/ pc[s] = "notify" /\ mutualMatch[s].id = i
     \/ pc[s] = "accept_notify" /\ requestId[s] = i
  /\ \E r \in swap_requests : r.id = i /\ r.status = "matched"

\* C21: after a match is committed a notification about it is eventually
\* produced, also when the first insert of it fails (stated for any one
\* participant: the claim asks it for both).
C21_NotificationEventuallyProduced ==
  \A i \in RequestIds :
    (\E s \in FaultSessions : CommittedBy(s, i))
      ~> (\E n \in BagToSet(notifications) : n.request = i)

\* Request i is pending before the step and matched after it.
CommitsMatch(i) ==
  /\ \E r \in swap_requests : r.id = i /\ r.status = "pending"
  /\ \E r \in swap_requests' : r.id = i /\ r.status = "matched"

\* C22: an operation goes on from its status update to producing a match
\* notification only if that update changed the record from pending to
\* matched: not when the update failed, and not when the record was no
\* longer pending.
C22_NotificationOnlyAfterOwnCommit ==
  [][\A s \in FaultSessions :
       /\ (pc[s] = "update" /\ pc'[s] = "notify") => CommitsMatch(mutualMatch[s].id)
       /\ (pc[s] = "idle" /\ pc'[s] = "accept_notify") => CommitsMatch(requestId'[s])]_vars

\* The reverse record other -> me is absent, matched or rejected.
ReverseNotPending(me, other) ==
  StatusOf(swap_requests, other, me) \in {"none", "matched", "rejected"}

\* C23: a first swipe by A on B whose insert meets no record A->B stores
\* A->B as pending and nothing else; when its reverse lookup then meets no
\* record B->A, or meets it matched or rejected, the swipe ends there with
\* the store as it was: no status changes and no notification is produced.
C23_UnmatchedFirstSwipeOnlyInserts ==
  [][\A s \in Sessions :
       /\ (/\ SwipeStep(s)
           /\ pc[s] = "animating"
           /\ StatusOf(swap_requests, UserOf(s), CurrentProfile(s)) = "none")
            => /\ notifications' = notifications
               /\ \E r \in swap_requests' :
                    /\ swap_requests' = swap_requests \cup {r}
                    /\ r \notin swap_requests
                    /\ r.from_user_id = UserOf(s)
                    /\ r.to_user_id = CurrentProfile(s)
                    /\ r.status = "pending"
       /\ (/\ SwipeStep(s)
           /\ pc[s] = "lookup"
           /\ ReverseNotPending(UserOf(s), CurrentProfile(s)))
            => /\ store' = store
               /\ pc'[s] = "idle"
               /\ <<"swipe", UserOf(s), CurrentProfile(s), "pending">> \in finished']_vars

\* C23 witness: A accepted B's request and then swiped on B for the first
\* time: B->A is matched, A->B is pending and the swipe reported no match.
C23_Witness ==
  /\ StatusOf(swap_requests, "B", "A") = "matched"
  /\ StatusOf(swap_requests, "A", "B") = "pending"
  /\ <<"accept", "A", "B", "accepted">> \in finished
  /\ <<"swipe", "A", "B", "pending">> \in finished
  /\ NotifiedCount(notifications, "A") = 0

\* The place of a handleSwipe execution in its sequence of store
\* operations: before the insert, before the reverse lookup, before the
\* status update, before the notification insert, ended.
StoreOpRank(p) ==
  CASE p = "animating" -> 1
    [] p = "lookup" -> 2
    [] p = "update" -> 3
    [] p = "notify" -> 4
    [] OTHER -> 5

\* C24: a swipe execution makes its store operations in one pass, with no
\* retry and no waiting: every step of it moves forward in the sequence
\* insert, reverse lookup, status update, notification insert, so it makes
\* at most one of each (the claim allows two updates) and ends after at
\* most four; when the insert did not fail the reverse lookup is made, and
\* only the insert, the lookup, the update and the notification insert
\* write or read the tables.
C24_BoundedStoreOperations ==
  [][\A s \in FaultSessions :
       (StoreOpRank(pc[s]) < 5 /\ pc'[s] # pc[s]) =>
         /\ StoreOpRank(pc'[s]) > StoreOpRank(pc[s])
         /\ (pc[s] = "animating" /\ swap_requests' # swap_requests) => pc'[s] = "lookup"
         /\ (pc[s] = "animating" /\ pc'[s] # "lookup") => store' = store
         /\ pc[s] = "lookup" => store' = store /\ pc'[s] \in {"update", "idle"}
         /\ pc[s] = "update" => pc'[s] = "notify" /\ notifications' = notifications
         /\ pc[s] = "notify" => pc'[s] = "idle" /\ swap_requests' = swap_requests]_vars

\* C24 witness: a swipe has made all four store operations and ended.
C24_Witness ==
  \E s \in FaultSessions :
    /\ pc[s] = "idle"
    /\ <<"swipe", UserOf(s), "A", "matched">> \in finished
    /\ NotifiedCount(notifications, UserOf(s)) = 1
    /\ StatusOf(swap_requests, "A", UserOf(s)) = "matched"
    /\ StatusOf(swap_requests, UserOf(s), "A") = "pending"

\* Schedule.tsx fetchChatUsers, lines 625-643: the rows with status matched
\* and from_user_id or to_user_id the user.  The select embeds users twice,
\* each time with a foreign-key hint and no alias; a returned row names an
\* embedded resource by its relation, users, never by relation!hint.
ChatResponseRows(reqs, u) ==
  {[id |-> r.id, from_user_id |-> r.from_user_id, to_user_id |-> r.to_user_id,
    users |-> r.from_user_id] :
     r \in {q \in reqs : /\ q.status = "matched"
                         /\ (q.from_user_id = u \/ q.to_user_id = u)}}

\* row[key] in JavaScript: undefined (here NoUser) when the row has no such
\* key.
ResponseField(row, key) == IF key \in DOMAIN row THEN row[key] ELSE NoUser

\* Lines 647-683: the chat user list; a row whose otherUser is undefined is
\* skipped.
SelectChatUsers(reqs, u) ==
  {v \in {IF row.from_user_id = u
            THEN ResponseField(row, "users!swap_requests_to_user_id_fkey")
            ELSE ResponseField(row, "users!swap_requests_from_user_id_fkey") :
          row \in ChatResponseRows(reqs, u)} : v # NoUser}

\* C25: when a record between A and B is matched, the chat user list read
\* for A holds B and the one read for B holds A; and a chat user list holds
\* V for U only if a record between U and V is matched.
C25_ChatListShowsMatches ==
  \A u \in Users : \A v \in Users \ {u} :
    /\ ("matched" \in {StatusOf(swap_requests, u, v), StatusOf(swap_requests, v, u)})
         => v \in SelectChatUsers(swap_requests, u)
    /\ v \in SelectChatUsers(swap_requests, u)
         => "matched" \in {StatusOf(swap_requests, u, v), StatusOf(swap_requests, v, u)}

\* Session s acts, in this step, on a request sent to its user: the status
\* update of its swipe, or its accept or reject of a listed request.
ActsAsRecipient(s) ==
  \/ pc[s] = "update" /\ pc'[s] = "notify"
  \/ pc[s] = "idle" /\ pc'[s] \in {"accept_notify", "fetch_pending"}

PassStep(s) ==
  \/ pc[s] = "idle" /\ pc'[s] = "animating" /\ direction'[s] \in {"left", "down"}
  \/ pc[s] = "animating" /\ direction[s] \in {"left", "down"} /\ pc'[s] # pc[s]

\* C27: a left or down swipe makes no store operation: no step of it
\* creates a request, changes a status or produces a notification; and
\* every step of a swipe that writes to a table is a step of a right or up
\* swipe.
C27_PassAndSaveTouchNoTable ==
  /\ [][\A s \in Sessions : PassStep(s) => store' = store]_vars
  /\ [][\A s \in Sessions :
          (pc'[s] # pc[s] /\ page[s] = "discover" /\ store' # store)
            => direction[s] \in {"right", "up"}]_vars

\* C27 witness: only left and down swipes have run, one of them to its end,
\* and both tables are empty.
C27_Witness ==
  /\ nOps = 0
  /\ \E s \in Sessions : currentIndex[s] = 1 /\ pc[s] = "idle"
  /\ swap_requests = {}
  /\ notifications = EmptyBag

\* The insert step of a right/up swipe of session s returns an error other
\* than a duplicate key: no row is stored and the error is not 23505.
InsertReturnedError(s) ==
  /\ pc[s] = "animating"
  /\ direction[s] \in {"right", "up"}
  /\ pc'[s] # pc[s]
  /\ swap_requests' = swap_requests
  /\ insertError'[s] # "23505"

\* C28: a right/up swipe whose insert fails with an error other than a
\* duplicate key ends there: it makes no reverse lookup, no status update
\* and no notification insert, and leaves both tables unchanged.
C28_FailedInsertEndsTheSwipe ==
  [][\A s \in FaultSessions :
       InsertReturnedError(s) => store' = store /\ pc'[s] = "idle"]_vars

\* C28 witness: a swipe of A on B has ended after its insert failed: there
\* is no record and no notification.
C28_Witness ==
  /\ <<"swipe", "A", "B", "pending">> \in finished
  /\ pc[1] = "idle"
  /\ currentIndex[1] = 1
  /\ swap_requests = {}
  /\ notifications = EmptyBag

\* isAnimating: an execution of handleSwipe is running in session s.
IsAnimating(s) == pc[s] \in {"animating", "lookup", "update", "notify"}

\* C29: every execution of handleSwipe that starts ends, with isAnimating
\* false again, also when store operations in it fail; currentIndex stays
\* as it is while the execution runs and is advanced by exactly one when it
\* ends; an execution starts only from a call made while isAnimating is
\* false and profiles remain, and a call made otherwise changes nothing.
C29_SwipeAlwaysFinishes ==
  /\ \A s \in FaultSessions : IsAnimating(s) ~> ~IsAnimating(s)
  /\ [][\A s \in FaultSessions :
          /\ (IsAnimating(s) /\ IsAnimating(s)') => currentIndex'[s] = currentIndex[s]
          /\ (IsAnimating(s) /\ ~IsAnimating(s)')
               => /\ currentIndex'[s] = currentIndex[s] + 1
                  /\ pc'[s] = "idle"
          /\ (~IsAnimating(s) /\ IsAnimating(s)')
               => /\ pc'[s] = "animating"
                  /\ currentIndex[s] < Len(ProfilesOf(UserOf(s)))
                  /\ store' = store
          /\ (currentIndex[s] >= Len(ProfilesOf(UserOf(s))) /\ pc'[s] # pc[s])
               => store' = store /\ ~IsAnimating(s)']_vars

\* C29 witness: A's swipe, whose insert failed, and B's swipe, which stored
\* its record and found no match, have both ended, each with its profile
\* consumed.
C29_Witness ==
  /\ \A s \in FaultSessions : pc[s] = "idle" /\ currentIndex[s] = 1
  /\ RowsOf(swap_requests, "A", "B") = {}
  /\ <<"swipe", "A", "B", "pending">> \in finished
  /\ <<"swipe", "B", "A", "pending">> \in finished
  /\ StatusOf(swap_requests, "B", "A") = "pending"

\* C30: every entry of the Dashboard match list read for user U displays
\* the other participant of the entry's matched record, never U.
C30_MatchEntryShowsOtherUser ==
  \A u \in Users :
    \A e \in SelectMatches(swap_requests, u) :
      /\ e.user # u
      /\ PairOfEntry(swap_requests, e) = {u, e.user}

=============================================================================
